---- MODULE Spec2Model ----
(***************************************************************************)
(* Model of the diagnostic plotting pipeline of the NA-CORDEX             *)
(* visualization cookbook (notebooks/plot-diagnostics.ipynb): the helpers *)
(* getValidDateIndexes and truncateData, the three plotting functions,    *)
(* and the order in which the notebook's cells create the dask cluster,   *)
(* bind the dataset, plot and release the cluster.                        *)
(*                                                                         *)
(* A climate field is a record [time, data]: time is the time coordinate  *)
(* (a strictly increasing sequence of timestamps) and data[t] maps every  *)
(* (lat, lon) cell of the grid to a finite number or to NaN.  Indexes     *)
(* returned by the code are 0-based, as in Python; sequences of the model *)
(* are 1-based, so index i of the code is position i + 1 of a sequence.   *)
(***************************************************************************)
EXTENDS Integers, Sequences, FiniteSets, TLC

VARIABLES
    ds,        \* the dataset bound to the notebook-level name ds
    arg,       \* the field passed to the helper under study
    ny,        \* the num_years passed to truncateData
    out,       \* the outcome of the helper call
    out2,      \* the outcome of truncateData applied to the value of out
    pc,        \* position of the run
    opts,      \* the boolean switches of the notebook
    cluster,   \* the dask cluster handle: state and backend
    figure,    \* the outcome of the last plotting call
    requests   \* number of computations handed to the engine so far

vars == <<ds, arg, ny, out, out2, pc, opts, cluster, figure, requests>>

----------------------------------------------------------------------------
(* Bounds of the model *)

\* longest time axis of an enumerated field
MaxTime == 3

\* largest num_years passed to truncateData
MaxNumYears == 2

\* most members of an enumerated dataset
MaxMembers == 5

----------------------------------------------------------------------------
(* Values, calendar, grid *)

\* np.nan: the missing value of a float array
NaN == -1

\* the finite values of enumerated fields
FiniteVals == {0, 1}

CellVals == FiniteVals \cup {NaN}

\* the (lat, lon) cells of enumerated fields
Grid == {<<0, 0>>, <<0, 1>>}

\* the calendar: timestamp s (a position of Calendar) lies in year Calendar[s]
Calendar == <<2000, 2000, 2001, 2001, 2002, 2002, 2003, 2003, 2004, 2004, 2005, 2005>>

\* time.dt.year: the calendar year of a timestamp
year(s) == Calendar[s]

\* the timestamps of enumerated time axes: the first two years of the calendar
Stamps == {s \in DOMAIN Calendar : year(s) <= year(1) + 1}

\* time coordinates: strictly increasing sequences of timestamps
TimeAxes ==
    {a \in UNION {[1..n -> Stamps] : n \in 0..MaxTime} :
        \A i \in 1..(Len(a) - 1) : a[i] < a[i + 1]}

FieldsOver(axis) == {[time |-> axis, data |-> d] : d \in [1..Len(axis) -> [Grid -> CellVals]]}

Fields == UNION {FieldsOver(a) : a \in TimeAxes}

\* a field that runs over the whole calendar (2000 through 2005), every value 0
LongField == [time |-> [s \in DOMAIN Calendar |-> s],
              data |-> [s \in DOMAIN Calendar |-> [c \in Grid |-> 0]]]

----------------------------------------------------------------------------
(* Outcomes of a call: a returned value or a raised exception *)

Ok(v) == [ok |-> TRUE, value |-> v]

Raise(e) == [ok |-> FALSE, error |-> e]

None == [ok |-> FALSE, error |-> "not called"]

----------------------------------------------------------------------------
(* Reductions of the array engine (xarray over dask) *)

RECURSIVE SetMin(_)
SetMin(S) ==
    LET x == CHOOSE x \in S : TRUE
    IN  IF S = {x} THEN x
        ELSE LET m == SetMin(S \ {x}) IN IF x < m THEN x ELSE m

RECURSIVE SetMax(_)
SetMax(S) ==
    LET x == CHOOSE x \in S : TRUE
    IN  IF S = {x} THEN x
        ELSE LET m == SetMax(S \ {x}) IN IF x > m THEN x ELSE m

\* the entries of f (a map over cells, or a series over time) that are not NaN
Present(f) == {x \in DOMAIN f : f[x] # NaN}

\* xarray's min, max of float data skip NaN (skipna defaults to True): the result is
\* NaN only when every entry is NaN
nanmin(f) == IF Present(f) = {} THEN NaN ELSE SetMin({f[x] : x \in Present(f)})

nanmax(f) == IF Present(f) = {} THEN NaN ELSE SetMax({f[x] : x \in Present(f)})

SpatialMin_Propagate(map) ==
    IF \E c \in DOMAIN map : map[c] = NaN THEN NaN ELSE nanmin(map)

\* DataArray.min(dim=['lat','lon']) of one time step
SpatialMin(map) == nanmin(map)

\* DataArray.max(dim=['lat','lon']) of one time step
SpatialMax(map) == nanmax(map)

\* np.isfinite
isfinite(v) == v # NaN

\* np.isnan
isnan(v) == v = NaN

\* np.where(b)[0]: the 0-based positions of the true entries of b, ascending
RECURSIVE where(_)
where(b) ==
    IF Len(b) = 0 THEN <<>>
    ELSE LET front == where(SubSeq(b, 1, Len(b) - 1))
         IN  IF b[Len(b)] THEN Append(front, Len(b) - 1) ELSE front

----------------------------------------------------------------------------
(* Helper: first and last dates with finite values *)

getValidDateIndexes_LastAsCount(member_slice) ==
    LET min_values == [t \in 1..Len(member_slice.time) |-> SpatialMin(member_slice.data[t])]
        is_finite == [t \in 1..Len(min_values) |-> isfinite(min_values[t])]
        finite_indexes == where(is_finite)
    IN  IF Len(finite_indexes) = 0
        THEN Raise("IndexError")
        ELSE Ok(<<finite_indexes[1], finite_indexes[1] + Len(finite_indexes) - 1>>)

getValidDateIndexes_NoGuard(member_slice) ==
    LET min_values == [t \in 1..Len(member_slice.time) |-> SpatialMin(member_slice.data[t])]
        is_finite == [t \in 1..Len(min_values) |-> isfinite(min_values[t])]
        finite_indexes == where(is_finite)
    IN  IF Len(finite_indexes) = 0
        THEN Ok(<<0, Len(member_slice.time) - 1>>)
        ELSE Ok(<<finite_indexes[1], finite_indexes[Len(finite_indexes)]>>)

getValidDateIndexes_EndFirst(member_slice) ==
    LET min_values == [t \in 1..Len(member_slice.time) |-> SpatialMin(member_slice.data[t])]
        is_finite == [t \in 1..Len(min_values) |-> isfinite(min_values[t])]
        finite_indexes == where(is_finite)
    IN  IF Len(finite_indexes) = 0
        THEN Raise("IndexError")
        ELSE Ok(<<finite_indexes[Len(finite_indexes)], finite_indexes[1]>>)

\* finite_indexes[0][0] and finite_indexes[0][-1] raise IndexError on an empty array
getValidDateIndexes(member_slice) ==
    LET min_values == [t \in 1..Len(member_slice.time) |-> SpatialMin(member_slice.data[t])]
        is_finite == [t \in 1..Len(min_values) |-> isfinite(min_values[t])]
        finite_indexes == where(is_finite)
    IN  IF Len(finite_indexes) = 0
        THEN Raise("IndexError")
        ELSE Ok(<<finite_indexes[1], finite_indexes[Len(finite_indexes)]>>)

----------------------------------------------------------------------------
(* Helper: truncation to the first num_years calendar years *)

\* the positions idx (0-based, ascending) of a field
Take(field, idx) ==
    [time |-> [i \in 1..Len(idx) |-> field.time[idx[i] + 1]],
     data |-> [i \in 1..Len(idx) |-> field.data[idx[i] + 1]]]

isel_NewestFirst(field, mask, coord) ==
    IF Len(mask) # Len(field.time)
    THEN Raise("IndexError")
    ELSE LET idx == where(mask)
             picked == Take(field, idx)
             n == Len(idx)
         IN  IF picked.time # [i \in 1..n |-> coord[idx[i] + 1]]
             THEN Raise("IndexError")
             ELSE Ok([time |-> [i \in 1..n |-> picked.time[n + 1 - i]],
                      data |-> [i \in 1..n |-> picked.data[n + 1 - i]]])

\* DataArray.isel(time=mask) with a boolean DataArray mask that carries the time
\* coordinate coord: a mask of another length than the axis raises IndexError, and so
\* does a mask whose selected coordinate values differ from those of the selected
\* steps (xarray's check of the indexer's dimension coordinate).
isel(field, mask, coord) ==
    IF Len(mask) # Len(field.time)
    THEN Raise("IndexError")
    ELSE LET idx == where(mask)
             picked == Take(field, idx)
         IN  IF picked.time # [i \in 1..Len(idx) |-> coord[idx[i] + 1]]
             THEN Raise("IndexError")
             ELSE Ok(picked)

truncateDataWith_OneYearMore(data_slice, num_years, dset) ==
    LET valid == getValidDateIndexes(data_slice)
    IN  IF ~valid.ok THEN valid
        ELSE LET start_index == valid.value[1]
                 start_date == data_slice.time[start_index + 1]
                 start_year == year(start_date)
                 year_range == {start_year + i : i \in 0..num_years}
                 mask == [t \in 1..Len(dset.time) |-> year(dset.time[t]) \in year_range]
             IN  isel(data_slice, mask, dset.time)

truncateDataWith_SwallowFailure(data_slice, num_years, dset) ==
    LET valid == getValidDateIndexes(data_slice)
    IN  IF ~valid.ok THEN Ok(data_slice)
        ELSE LET start_index == valid.value[1]
                 start_date == data_slice.time[start_index + 1]
                 start_year == year(start_date)
                 year_range == {start_year + i : i \in 0..(num_years - 1)}
                 mask == [t \in 1..Len(dset.time) |-> year(dset.time[t]) \in year_range]
             IN  isel(data_slice, mask, dset.time)

\* the body of truncateData with the name ds resolved to the dataset dset
truncateDataWith(data_slice, num_years, dset) ==
    LET valid == getValidDateIndexes(data_slice)
    IN  IF ~valid.ok THEN valid
        ELSE LET start_index == valid.value[1]
                 start_date == data_slice.time[start_index + 1]
                 start_year == year(start_date)
                 year_range == {start_year + i : i \in 0..(num_years - 1)}
                 mask == [t \in 1..Len(dset.time) |-> year(dset.time[t]) \in year_range]
             IN  isel(data_slice, mask, dset.time)

\* truncateData(data_slice, num_years): the mask is computed from the time axis of
\* the notebook-level ds, not from that of data_slice
truncateData(data_slice, num_years) == truncateDataWith(data_slice, num_years, ds)

----------------------------------------------------------------------------
(* Datasets *)

\* a dataset with the time axis, member names and per-member data given
Dataset(axis, names, vals) ==
    [time |-> axis, member_id |-> names, vals |-> vals, units |-> "units"]

NoDataset == Dataset(<<>>, <<>>, <<>>)

\* ds[data_var].sel(member_id=...) for the member at position i (1-based)
MemberSlice(dset, i) == [time |-> dset.time, data |-> dset.vals[i]]

NoFigure == [fn |-> "none", panels |-> <<>>, log |-> <<>>, error |-> "none"]

NoOpts == [TRUNCATE_DATA |-> FALSE, USE_PBS_SCHEDULER |-> FALSE, USE_DASK_GATEWAY |-> FALSE]

NoCluster == [state |-> "none", backend |-> "none"]

----------------------------------------------------------------------------
(* Specification of getValidDateIndexes applied to any field *)

InitScan ==
    /\ arg \in Fields
    /\ ds = NoDataset
    /\ ny = 0
    /\ out = None
    /\ out2 = None
    /\ pc = "start"
    /\ opts = NoOpts
    /\ cluster = NoCluster
    /\ figure = NoFigure
    /\ requests = 0

CallGetValidDateIndexes ==
    /\ pc = "start"
    /\ out' = getValidDateIndexes(arg)
    /\ pc' = "returned"
    /\ UNCHANGED <<ds, arg, ny, out2, opts, cluster, figure, requests>>

NextScan == CallGetValidDateIndexes

SpecScan == InitScan /\ [][NextScan]_vars

----------------------------------------------------------------------------
(* Specification of truncateData applied to any field under any binding   *)
(* of ds, and applied again to its own result                              *)

InitTrunc ==
    /\ \/ /\ arg \in Fields
          /\ \E a \in TimeAxes : ds = Dataset(a, <<>>, <<>>)
       \/ /\ arg = LongField
          /\ ds = Dataset(LongField.time, <<>>, <<>>)
    /\ ny \in 1..MaxNumYears
    /\ out = None
    /\ out2 = None
    /\ pc = "start"
    /\ opts = NoOpts
    /\ cluster = NoCluster
    /\ figure = NoFigure
    /\ requests = 0

CallTruncateData ==
    /\ pc = "start"
    /\ out' = truncateData(arg, ny)
    /\ pc' = "returned"
    /\ UNCHANGED <<ds, arg, ny, out2, opts, cluster, figure, requests>>

CallTruncateDataAgain ==
    /\ pc = "returned"
    /\ out.ok
    /\ out2' = truncateData(out.value, ny)
    /\ pc' = "returned twice"
    /\ UNCHANGED <<ds, arg, ny, out, opts, cluster, figure, requests>>

NextTrunc == CallTruncateData \/ CallTruncateDataAgain

SpecTrunc == InitTrunc /\ [][NextTrunc]_vars

----------------------------------------------------------------------------
(* Exact fractions: the numbers that the plots draw and annotate.  <<n, d>> with  *)
(* d > 0 is n/d in lowest terms; <<0, 0>> is NaN.                                 *)

RECURSIVE GCD(_, _)
GCD(a, b) == IF b = 0 THEN a ELSE GCD(b, a % b)

Frac(n, d) == LET g == GCD(n, d) IN <<n \div g, d \div g>>

NaNq == <<0, 0>>

\* a value of a field as a fraction
Q(v) == IF v = NaN THEN NaNq ELSE <<v, 1>>

QMap(f) == [x \in DOMAIN f |-> Q(f[x])]

QLess(a, b) == a[1] * b[2] < b[1] * a[2]

RECURSIVE QSetMin(_)
QSetMin(S) ==
    LET x == CHOOSE x \in S : TRUE
    IN  IF S = {x} THEN x
        ELSE LET m == QSetMin(S \ {x}) IN IF QLess(x, m) THEN x ELSE m

RECURSIVE QSetMax(_)
QSetMax(S) ==
    LET x == CHOOSE x \in S : TRUE
    IN  IF S = {x} THEN x
        ELSE LET m == QSetMax(S \ {x}) IN IF QLess(m, x) THEN x ELSE m

QPresent(f) == {x \in DOMAIN f : f[x] # NaNq}

\* min and max over (lat, lon) of a map of fractions, NaN skipped
qmin(f) == IF QPresent(f) = {} THEN NaNq ELSE QSetMin({f[x] : x \in QPresent(f)})

qmax(f) == IF QPresent(f) = {} THEN NaNq ELSE QSetMax({f[x] : x \in QPresent(f)})

RECURSIVE SumOver(_, _)
SumOver(f, S) ==
    IF S = {} THEN 0
    ELSE LET x == CHOOSE x \in S : TRUE IN f[x] + SumOver(f, S \ {x})

\* DataArray.mean: the mean of the entries that are not NaN, NaN if there is none
nanmean(f) ==
    LET P == Present(f)
    IN  IF P = {} THEN NaNq ELSE Frac(SumOver(f, P), Cardinality(P))

nanvar_NoCentering(f) ==
    LET P == Present(f)
        n == Cardinality(P)
        sumsq == SumOver([x \in P |-> f[x] * f[x]], P)
    IN  IF P = {} THEN NaNq ELSE Frac(sumsq, n)

\* the square of DataArray.std (ddof = 0) over the entries that are not NaN: the
\* standard deviation is its square root, and is 0 exactly when this is 0
nanvar(f) ==
    LET P == Present(f)
        n == Cardinality(P)
        sum == SumOver(f, P)
        sumsq == SumOver([x \in P |-> f[x] * f[x]], P)
    IN  IF P = {} THEN NaNq ELSE Frac(n * sumsq - sum * sum, n * n)

\* the series of one cell over the time steps of a slice
Series(slice, c) == [t \in 1..Len(slice.time) |-> slice.data[t][c]]

CellsOf(slice) == IF Len(slice.time) = 0 THEN {} ELSE DOMAIN slice.data[1]

\* data_slice.min / max / mean / std (dim='time'): one value per (lat, lon) cell
min_over_time(slice) == [c \in CellsOf(slice) |-> nanmin(Series(slice, c))]

max_over_time(slice) == [c \in CellsOf(slice) |-> nanmax(Series(slice, c))]

mean_over_time(slice) == [c \in CellsOf(slice) |-> nanmean(Series(slice, c))]

var_over_time(slice) == [c \in CellsOf(slice) |-> nanvar(Series(slice, c))]

\* data_slice.min / max / mean / std (dim=['lat','lon']): one value per time step
min_over_space(slice) == [t \in 1..Len(slice.time) |-> SpatialMin(slice.data[t])]

max_over_space(slice) == [t \in 1..Len(slice.time) |-> SpatialMax(slice.data[t])]

mean_over_space(slice) == [t \in 1..Len(slice.time) |-> nanmean(slice.data[t])]

var_over_space(slice) == [t \in 1..Len(slice.time) |-> nanvar(slice.data[t])]

\* DataArray.persist: the same values, held in the memory of the workers
persist(slice) == slice

\* DataArray.sel(time=date): the map of the time step labelled date
sel(slice, date) == slice.data[CHOOSE t \in 1..Len(slice.time) : slice.time[t] = date]

\* ds[data_var].sel(member_id=mem_id)
sel_member(dset, mem_id) ==
    MemberSlice(dset, CHOOSE i \in 1..Len(dset.member_id) : dset.member_id[i] = mem_id)

----------------------------------------------------------------------------
(* The plotting functions.  A call yields [fn, panels, log, error]: the panels     *)
(* drawn on the figure in the order they were drawn, the steps carried out         *)
(* (<<index, step>>, in order) and the exception that ended the call ("none" if    *)
(* it returned the figure).                                                         *)

num_members_to_plot == 4

member_names_Reversed(dset) ==
    LET n == IF Len(dset.member_id) < num_members_to_plot
             THEN Len(dset.member_id) ELSE num_members_to_plot
    IN  [i \in 1..n |-> dset.member_id[n + 1 - i]]

\* ds.coords['member_id'].values[0:num_members_to_plot]
member_names(dset) ==
    SubSeq(dset.member_id, 1,
           IF Len(dset.member_id) < num_members_to_plot
           THEN Len(dset.member_id) ELSE num_members_to_plot)

NewFigure(fn) == [fn |-> fn, panels |-> <<>>, log |-> <<>>, error |-> "none"]

\* plotMap: the image drawn on the axes ax with the Min and Max texts, the title
\* (<<date>>, or <<>> without date_object) and the y label (<<member_id>> or <<>>)
plotMap(ax, map_slice, date_object, member_id) ==
    [ax |-> ax, image |-> map_slice, Min |-> qmin(map_slice), Max |-> qmax(map_slice),
     title |-> date_object, ylabel |-> member_id]

midDateIndex_OfWindow(dset, start_index, end_index) == (start_index + end_index) \div 2

midDateIndex_PastEnd(dset, start_index, end_index) == Len(dset.time)

\* np.floor(len(ds.time) / 2).astype(int)
midDateIndex(dset, start_index, end_index) == Len(dset.time) \div 2

RECURSIVE first_mid_last_loop(_, _, _)
first_mid_last_loop(dset, index, fig) ==
    IF index = num_members_to_plot THEN fig
    ELSE IF index >= Len(member_names(dset)) THEN [fig EXCEPT !.error = "IndexError"]
    ELSE
        LET mem_id == member_names(dset)[index + 1]
            data_slice == sel_member(dset, mem_id)
            valid == getValidDateIndexes(data_slice)
            steps == <<<<index, "select">>, <<index, "scan">>>>
        IN  IF ~valid.ok
            THEN [fig EXCEPT !.error = valid.error, !.log = @ \o steps]
            ELSE
                LET start_index == valid.value[1]
                    end_index == valid.value[2]
                    mid_index == midDateIndex(dset, start_index, end_index)
                    startDate == dset.time[start_index + 1]
                    midDate == dset.time[mid_index + 1]
                    endDate == dset.time[end_index + 1]
                    first_step == sel(data_slice, startDate)
                    mid_step == sel(data_slice, midDate)
                    last_step == sel(data_slice, endDate)
                    first_drawn == plotMap(<<index, 0>>, QMap(first_step), <<startDate>>, <<mem_id>>)
                    drawn == << first_drawn,
                                plotMap(<<index, 1>>, QMap(mid_step), <<midDate>>, <<>>),
                                plotMap(<<index, 2>>, QMap(last_step), <<endDate>>, <<>>) >>
                    plots == <<<<index, "plot">>, <<index, "plot">>, <<index, "plot">>>>
                IN  IF mid_index >= Len(dset.time)
                    THEN \* ds.time[midDateIndex] past the end of the axis raises IndexError,
                         \* after the first panel of the row was drawn
                         [fig EXCEPT !.error = "IndexError",
                                     !.panels = Append(@, first_drawn),
                                     !.log = @ \o steps \o <<<<index, "plot">>>>]
                    ELSE first_mid_last_loop(dset, index + 1,
                            [fig EXCEPT !.panels = @ \o drawn, !.log = @ \o steps \o plots])

plot_first_mid_last(dset) ==
    first_mid_last_loop(dset, 0, NewFigure("plot_first_mid_last"))

prepared_ThreeYears(data_slice, truncate_data) ==
    IF truncate_data THEN truncateData(data_slice, 3) ELSE Ok(data_slice)

\* the slice of a member as plot_stat_maps and plot_timeseries prepare it
prepared(data_slice, truncate_data) ==
    IF truncate_data THEN truncateData(data_slice, 1) ELSE Ok(data_slice)

PrepareSteps_TruncateBeforeSelect(index, truncate_data) ==
    (IF truncate_data THEN <<<<index, "truncate">>>> ELSE <<>>) \o <<<<index, "select">>>>

PrepareSteps(index, truncate_data) ==
    <<<<index, "select">>>> \o (IF truncate_data THEN <<<<index, "truncate">>>> ELSE <<>>)

RECURSIVE stat_maps_loop(_, _, _, _)
stat_maps_loop(dset, truncate_data, index, fig) ==
    IF index = num_members_to_plot THEN fig
    ELSE IF index >= Len(member_names(dset)) THEN [fig EXCEPT !.error = "IndexError"]
    ELSE
        LET mem_id == member_names(dset)[index + 1]
            got == prepared(sel_member(dset, mem_id), truncate_data)
            steps == PrepareSteps(index, truncate_data)
        IN  IF ~got.ok
            THEN [fig EXCEPT !.error = got.error, !.log = @ \o steps]
            ELSE
                LET data_slice == persist(got.value)
                    drawn == << plotMap(<<index, 0>>, QMap(min_over_time(data_slice)), <<>>, <<mem_id>>),
                                plotMap(<<index, 1>>, QMap(max_over_time(data_slice)), <<>>, <<>>),
                                plotMap(<<index, 2>>, mean_over_time(data_slice), <<>>, <<>>),
                                plotMap(<<index, 3>>, var_over_time(data_slice), <<>>, <<>>) >>
                    work == << <<index, "persist">>,
                               <<index, "min">>, <<index, "plot">>,
                               <<index, "max">>, <<index, "plot">>,
                               <<index, "mean">>, <<index, "plot">>,
                               <<index, "std">>, <<index, "plot">> >>
                IN  stat_maps_loop(dset, truncate_data, index + 1,
                        [fig EXCEPT !.panels = @ \o drawn, !.log = @ \o steps \o work])

\* the column titles set on the top row once the loop is over
StatTitles == <<"min(data_var)", "max(data_var)", "mean(data_var)", "std(data_var)">>

\* the std column holds the squares of the plotted values (see nanvar)
plot_stat_maps(dset, truncate_data) ==
    LET fig == stat_maps_loop(dset, truncate_data, 0, NewFigure("plot_stat_maps"))
    IN  IF fig.error # "none" THEN fig
        ELSE [fig EXCEPT !.panels =
                [k \in DOMAIN fig.panels |->
                    IF fig.panels[k].ax[1] = 0
                    THEN [fig.panels[k] EXCEPT !.title = <<StatTitles[fig.panels[k].ax[2] + 1]>>]
                    ELSE fig.panels[k]]]

MissingIndexes_Finite(min_vals) == [t \in DOMAIN min_vals |-> isfinite(min_vals[t])]

\* np.isnan(min_vals).compute()
MissingIndexes(min_vals) == [t \in DOMAIN min_vals |-> isnan(min_vals[t])]

RECURSIVE timeseries_loop(_, _, _, _)
timeseries_loop(dset, truncate_data, index, fig) ==
    IF index = num_members_to_plot THEN fig
    ELSE IF index >= Len(member_names(dset)) THEN [fig EXCEPT !.error = "IndexError"]
    ELSE
        LET mem_id == member_names(dset)[index + 1]
            got == prepared(sel_member(dset, mem_id), truncate_data)
            steps == PrepareSteps(index, truncate_data)
        IN  IF ~got.ok
            THEN [fig EXCEPT !.error = got.error, !.log = @ \o steps]
            ELSE
                LET data_slice == persist(got.value)
                    min_vals == min_over_space(data_slice)
                    max_vals == max_over_space(data_slice)
                    mean_vals == mean_over_space(data_slice)
                    var_vals == var_over_space(data_slice)
                    missing_indexes == MissingIndexes(min_vals)
                    missing_times == Take(data_slice, where(missing_indexes)).time
                    drawn == [ax |-> <<index, 0>>, x |-> data_slice.time,
                              max |-> QMap(max_vals), mean |-> mean_vals,
                              std_squared |-> var_vals, min |-> QMap(min_vals),
                              rug |-> missing_times,
                              title |-> <<mem_id>>, ylabel |-> dset.units]
                    work == << <<index, "persist">>, <<index, "min">>, <<index, "max">>,
                               <<index, "mean">>, <<index, "std">>, <<index, "isnan">>,
                               <<index, "plot">> >>
                IN  timeseries_loop(dset, truncate_data, index + 1,
                        [fig EXCEPT !.panels = Append(@, drawn), !.log = @ \o steps \o work])

plot_timeseries(dset, truncate_data) ==
    timeseries_loop(dset, truncate_data, 0, NewFigure("plot_timeseries"))

\* the steps of a call that ask the engine to compute: all but the lazy selection
EngineRequests(log) == Cardinality({k \in DOMAIN log : log[k][2] # "select"})

----------------------------------------------------------------------------
(* The datasets that the run of the notebook may load *)

MemberIds(k) == [i \in 1..k |-> <<"member", i>>]

\* the data of a field with every finite value moved on by j, NaN kept
Shifted(data, j) ==
    [t \in DOMAIN data |->
        [c \in DOMAIN data[t] |->
            IF data[t][c] = NaN THEN NaN ELSE (data[t][c] + j) % Cardinality(FiniteVals)]]

\* every cell of every step is v
Steady(axis, v) == [t \in 1..Len(axis) |-> [c \in Grid |-> v]]

\* no data at the first step, then data with one cell missing
LateStart(axis) ==
    [t \in 1..Len(axis) |->
        [c \in Grid |-> IF t = 1 \/ c = CHOOSE g \in Grid : TRUE THEN NaN ELSE t % 2]]

MemberPool(axis) == {Steady(axis, 1), LateStart(axis), Steady(axis, NaN)}

\* the time axis of MaxTime steps from the start of the calendar
LongAxis == [t \in 1..MaxTime |-> t]

\* the shorter time axes
ShortAxes == {a \in TimeAxes : 1 <= Len(a) /\ Len(a) < MaxTime}

\* datasets of num_members_to_plot members on the shorter axes: any field and its
\* shifted copies
VariedDatasets ==
    {Dataset(f.time, MemberIds(num_members_to_plot),
             [i \in 1..num_members_to_plot |-> Shifted(f.data, i - 1)]) :
        f \in UNION {FieldsOver(a) : a \in ShortAxes}}

\* datasets of 0..MaxMembers members on the long axis, each member from the pool
PooledDatasets ==
    UNION {{Dataset(LongAxis, MemberIds(k), vals) : vals \in [1..k -> MemberPool(LongAxis)]} :
        k \in 0..MaxMembers}

\* 4 members, 10 time steps on a 3x3 grid: the value of every cell is the index of
\* the step at steps 0..8 and NaN at step 9
TenStepDataset ==
    Dataset([s \in 1..10 |-> s], MemberIds(4),
            [i \in 1..4 |-> [t \in 1..10 |->
                [c \in (0..2) \X (0..2) |-> IF t = 10 THEN NaN ELSE t - 1]]])

Datasets == VariedDatasets \cup PooledDatasets \cup {TenStepDataset}

----------------------------------------------------------------------------
(* The run of the notebook: its cells, from top to bottom.  When a plotting cell  *)
(* raises, the run ends there (Run All) or the user runs the next cell.            *)

Cells_CloseBeforeTimeseries ==
    <<"create_cluster", "load_dataset", "plot_first_mid_last", "plot_stat_maps",
      "close_cluster", "plot_timeseries">>

Cells ==
    <<"create_cluster", "load_dataset", "plot_first_mid_last", "plot_stat_maps",
      "plot_timeseries", "close_cluster">>

\* the cell that runs after cell c
After(c) ==
    LET k == CHOOSE k \in DOMAIN Cells : Cells[k] = c
    IN  IF k = Len(Cells) THEN "done" ELSE Cells[k + 1]

Init ==
    /\ opts \in [TRUNCATE_DATA : BOOLEAN, USE_PBS_SCHEDULER : BOOLEAN, USE_DASK_GATEWAY : BOOLEAN]
    /\ ds = NoDataset
    /\ arg = <<>>
    /\ ny = 0
    /\ out = None
    /\ out2 = None
    /\ pc = Cells[1]
    /\ cluster = NoCluster
    /\ figure = NoFigure
    /\ requests = 0

CreateCluster_GatewayFirst ==
    /\ pc = "create_cluster"
    /\ cluster' = [state |-> "live",
                   backend |-> IF opts.USE_DASK_GATEWAY THEN "gateway"
                               ELSE IF opts.USE_PBS_SCHEDULER THEN "pbs"
                               ELSE "local"]
    /\ pc' = After(pc)
    /\ UNCHANGED <<ds, arg, ny, out, out2, opts, figure, requests>>

\* if USE_PBS_SCHEDULER / elif USE_DASK_GATEWAY / else
CreateCluster ==
    /\ pc = "create_cluster"
    /\ cluster' = [state |-> "live",
                   backend |-> IF opts.USE_PBS_SCHEDULER THEN "pbs"
                               ELSE IF opts.USE_DASK_GATEWAY THEN "gateway"
                               ELSE "local"]
    /\ pc' = After(pc)
    /\ UNCHANGED <<ds, arg, ny, out, out2, opts, figure, requests>>

\* ds = dsets[dataset_key]
LoadDataset ==
    /\ pc = "load_dataset"
    /\ \E d \in Datasets : ds' = d
    /\ pc' = After(pc)
    /\ UNCHANGED <<arg, ny, out, out2, opts, cluster, figure, requests>>

\* the cell calling the plotting function fn: fig is the outcome of the call
Plotted(fn, fig) ==
    /\ pc = fn
    /\ figure' = fig
    /\ requests' = requests + EngineRequests(figure'.log)
    /\ pc' \in IF figure'.error = "none" THEN {After(pc)} ELSE {After(pc), "aborted"}
    /\ UNCHANGED <<ds, arg, ny, out, out2, opts, cluster>>

PlotFirstMidLast == Plotted("plot_first_mid_last", plot_first_mid_last(ds))

PlotStatMaps == Plotted("plot_stat_maps", plot_stat_maps(ds, opts.TRUNCATE_DATA))

PlotTimeseries == Plotted("plot_timeseries", plot_timeseries(ds, opts.TRUNCATE_DATA))

\* cluster.close()
CloseCluster ==
    /\ pc = "close_cluster"
    /\ cluster' = [cluster EXCEPT !.state = "closed"]
    /\ pc' = After(pc)
    /\ UNCHANGED <<ds, arg, ny, out, out2, opts, figure, requests>>

Next ==
    \/ CreateCluster
    \/ LoadDataset
    \/ PlotFirstMidLast
    \/ PlotStatMaps
    \/ PlotTimeseries
    \/ CloseCluster

Spec == Init /\ [][Next]_vars

----------------------------------------------------------------------------
(* Properties of getValidDateIndexes (SpecScan) *)

\* the spatial minimum of the field at 0-based time index i is finite
FiniteAt(field, i) == isfinite(SpatialMin(field.data[i + 1]))

TimeIndexes(field) == 0..(Len(field.time) - 1)

\* some cell of the field at 0-based time index i is NaN
SomeCellNaN(field, i) == \E c \in DOMAIN field.data[i + 1] : field.data[i + 1][c] = NaN

\* some cell of the field at 0-based time index i is a finite number
SomeCellFinite(field, i) == \E c \in DOMAIN field.data[i + 1] : field.data[i + 1][c] # NaN

\* the finite time steps of the field are exactly the indexes a..b
IsBlock(field, a, b) ==
    /\ a <= b
    /\ \A i \in TimeIndexes(field) : FiniteAt(field, i) <=> (a <= i /\ i <= b)

\* C1: for a field with at least one time step whose spatial minimum is finite,
\* getValidDateIndexes returns (first, last) with first the smallest and last the
\* largest such time index; when the finite steps form one contiguous block a..b
\* with only NaN steps around it, the pair returned is exactly (a, b).
C1_FirstAndLastFinite ==
    (pc = "returned" /\ \E i \in TimeIndexes(arg) : FiniteAt(arg, i)) =>
        /\ out.ok
        /\ out.value[1] \in TimeIndexes(arg)
        /\ out.value[2] \in TimeIndexes(arg)
        /\ FiniteAt(arg, out.value[1])
        /\ FiniteAt(arg, out.value[2])
        /\ \A i \in TimeIndexes(arg) :
              FiniteAt(arg, i) => (out.value[1] <= i /\ i <= out.value[2])
        /\ \A a, b \in TimeIndexes(arg) : IsBlock(arg, a, b) => out.value = <<a, b>>

\* C1 witness: a block of finite steps padded with NaN steps on both sides was
\* scanned and its start and end were returned
C1_Witness ==
    /\ pc = "returned"
    /\ \E a, b \in TimeIndexes(arg) :
          /\ 0 < a
          /\ b < Len(arg.time) - 1
          /\ IsBlock(arg, a, b)
          /\ out = Ok(<<a, b>>)

\* C2: for a field with no finite time step getValidDateIndexes ends in an error;
\* it returns no pair of indexes.
C2_NoFiniteStepRaises ==
    (pc = "returned" /\ \A i \in TimeIndexes(arg) : ~FiniteAt(arg, i)) =>
        /\ ~out.ok
        /\ out.error = "IndexError"

\* C2 witness: a non-empty field without any finite step was scanned and the call
\* raised
C2_Witness ==
    /\ pc = "returned"
    /\ Len(arg.time) > 0
    /\ \A i \in TimeIndexes(arg) : ~FiniteAt(arg, i)
    /\ out = Raise("IndexError")

----------------------------------------------------------------------------
(* Properties of truncateData (SpecTrunc) *)

\* the calendar year of the first time step of the field with a finite cell
FirstValidYear(field) ==
    year(field.time[1 + CHOOSE i \in TimeIndexes(field) :
            /\ SomeCellFinite(field, i)
            /\ \A j \in TimeIndexes(field) : SomeCellFinite(field, j) => i <= j])

\* the 0-based indexes, ascending, of the steps of the field in the years y0..y1
RECURSIVE IndexesInYears(_, _, _, _)
IndexesInYears(field, y0, y1, n) ==
    IF n = 0 THEN <<>>
    ELSE LET front == IndexesInYears(field, y0, y1, n - 1)
         IN  IF y0 <= year(field.time[n]) /\ year(field.time[n]) <= y1
             THEN Append(front, n - 1) ELSE front

\* the steps of the field whose calendar year lies in y0..y1, in their order
StepsInYears(field, y0, y1) == Take(field, IndexesInYears(field, y0, y1, Len(field.time)))

HasValidStep(field) == \E i \in TimeIndexes(field) : SomeCellFinite(field, i)

\* C3 as stated: for every field with a valid step, whatever dataset is bound to
\* ds, truncateData(field, N) returns exactly the steps of the field whose calendar
\* year lies in [Y0, Y0+N-1], Y0 the calendar year of the first valid step.
C3_ExactlyTheYearRange ==
    (pc = "returned" /\ HasValidStep(arg)) =>
        /\ out.ok
        /\ out.value = StepsInYears(arg, FirstValidYear(arg), FirstValidYear(arg) + ny - 1)

\* C4 as stated, for a field on the time axis of the dataset bound to ds (the way
\* the notebook calls it): truncating the result of a truncation again with the same
\* N succeeds and returns the same field.
C4_Idempotent ==
    (pc = "returned twice" /\ ds.time = arg.time /\ HasValidStep(arg)) =>
        (out2.ok /\ out2.value = out.value)

----------------------------------------------------------------------------
(* Properties of the plotting functions and of the run (Spec) *)

\* the first and the last 0-based time index of the field with a finite cell
FirstValidIndex(field) ==
    CHOOSE i \in TimeIndexes(field) :
        /\ SomeCellFinite(field, i)
        /\ \A j \in TimeIndexes(field) : SomeCellFinite(field, j) => i <= j

LastValidIndex(field) ==
    CHOOSE i \in TimeIndexes(field) :
        /\ SomeCellFinite(field, i)
        /\ \A j \in TimeIndexes(field) : SomeCellFinite(field, j) => j <= i

\* the number of rows of 3 panels that plot_first_mid_last has drawn
SnapshotRows == Len(figure.panels) \div 3

\* C7: every row that plot_first_mid_last draws shows, in column order, the member's
\* snapshots (image and date) at first_index, mid_index and last_index, where
\* (first_index, last_index) is the member's validity window and mid_index is
\* floor(len(time) / 2) of the dataset's time axis; for the 10-step dataset whose
\* steps 0..8 are finite and step 9 is NaN the indexes are 0, 5, 8 (dates 1, 6, 9).
C7_SnapshotsFirstMidLast ==
    figure.fn = "plot_first_mid_last" =>
        /\ Len(figure.panels) = 3 * SnapshotRows
        /\ \A r \in 0..(SnapshotRows - 1) :
              LET field == MemberSlice(ds, r + 1)
                  index == <<FirstValidIndex(field), Len(ds.time) \div 2, LastValidIndex(field)>>
              IN  \A c \in 0..2 :
                      LET shown == figure.panels[3 * r + c + 1]
                      IN  /\ shown.ax = <<r, c>>
                          /\ shown.image = QMap(field.data[index[c + 1] + 1])
                          /\ shown.title = <<ds.time[index[c + 1] + 1]>>
        /\ ds = TenStepDataset =>
              /\ SnapshotRows = 4
              /\ \A r \in 0..3 :
                    /\ figure.panels[3 * r + 1].title = <<TenStepDataset.time[0 + 1]>>
                    /\ figure.panels[3 * r + 2].title = <<TenStepDataset.time[5 + 1]>>
                    /\ figure.panels[3 * r + 3].title = <<TenStepDataset.time[8 + 1]>>

\* C7 witness: plot_first_mid_last returned a figure of 4 rows in which the middle
\* snapshot of the first member lies after that member's validity window
C7_Witness ==
    /\ figure.fn = "plot_first_mid_last"
    /\ figure.error = "none"
    /\ SnapshotRows = 4
    /\ LastValidIndex(MemberSlice(ds, 1)) < Len(ds.time) \div 2
    /\ figure.panels[2].title = <<ds.time[Len(ds.time) \div 2 + 1]>>

\* the slice of a member that plot_timeseries is to plot: the steps of the first
\* valid year if TRUNCATE_DATA, every step otherwise
PlottedSlice(field) ==
    IF opts.TRUNCATE_DATA
    THEN StepsInYears(field, FirstValidYear(field), FirstValidYear(field))
    ELSE field

\* the dates of the steps of a slice whose spatial minimum is NaN
MissingDates(slice) ==
    {slice.time[t] : t \in {u \in 1..Len(slice.time) : isnan(SpatialMin(slice.data[u]))}}

\* C8: in every panel that plot_timeseries draws, the rug markers stand at exactly
\* the time steps of the member's slice (truncated if TRUNCATE_DATA) whose spatial
\* minimum is NaN, one marker each; for a slice without such a step no marker is
\* drawn.
C8_RugMarksMissingSteps ==
    figure.fn = "plot_timeseries" =>
        \A k \in 1..Len(figure.panels) :
            LET slice == PlottedSlice(MemberSlice(ds, k))
                rug == figure.panels[k].rug
            IN  /\ figure.panels[k].x = slice.time
                /\ {rug[i] : i \in DOMAIN rug} = MissingDates(slice)
                /\ Len(rug) = Cardinality(MissingDates(slice))
                /\ (MissingDates(slice) = {}) => rug = <<>>

\* C8 witness: plot_timeseries drew, for a truncated slice, a panel with a rug
\* marker and, for another member, a panel without any
C8_Witness ==
    /\ figure.fn = "plot_timeseries"
    /\ opts.TRUNCATE_DATA
    /\ \E k, m \in 1..Len(figure.panels) :
          /\ figure.panels[k].rug # <<>>
          /\ Len(figure.panels[k].x) < Len(ds.time)
          /\ figure.panels[m].rug = <<>>

\* the number of member rows on the figure
RowsDrawn == Cardinality({figure.panels[k].ax[1] : k \in DOMAIN figure.panels})

\* C9 as stated: with fewer than 4 members a plotting call draws the panels of
\* exactly the available members and returns, or fails before any panel is drawn.
C9_FewMembersClampOrFailFast ==
    (figure.fn # "none" /\ Len(ds.member_id) < num_members_to_plot) =>
        \/ figure.error = "none" /\ RowsDrawn = Len(ds.member_id)
        \/ figure.error # "none" /\ figure.panels = <<>>

\* C10: over a run of the notebook, every computation is requested while the
\* cluster is live: none before the cluster is created, none after cluster.close().
C10_RequestsOnlyWhileLive ==
    [][requests' # requests => (cluster.state = "live" /\ cluster'.state = "live")]_vars

\* C10 witness: the run requested computations and then closed the cluster
C10_Witness ==
    /\ cluster.state = "closed"
    /\ pc = "done"
    /\ requests > 0

----------------------------------------------------------------------------
(* Properties of the TRUNCATE_DATA switch (Spec) *)

\* the number of rows of 4 panels that plot_stat_maps has drawn
StatRows == Len(figure.panels) \div 4

\* the steps of a field in the calendar year of its first valid step
FirstValidYearOf(field) == StepsInYears(field, FirstValidYear(field), FirstValidYear(field))

\* the steps of a field in the first 3 calendar years of the dataset's time axis
FirstThreeYearsOf(field) == StepsInYears(field, year(ds.time[1]), year(ds.time[1]) + 2)

----------------------------------------------------------------------------
(* The validity window (SpecScan) *)

\* C12: whenever a field has at least one valid time step, getValidDateIndexes
\* returns a pair with 0 <= first_index <= last_index <= len(time) - 1.
C12_WindowWithinAxis ==
    (pc = "returned" /\ HasValidStep(arg)) =>
        /\ out.ok
        /\ 0 <= out.value[1]
        /\ out.value[1] <= out.value[2]
        /\ out.value[2] <= Len(arg.time) - 1

\* C12 witness: the scan returned a window first_index < last_index that has a
\* step without data inside it
C12_Witness ==
    /\ pc = "returned"
    /\ out.ok
    /\ out.value[1] < out.value[2]
    /\ \E i \in TimeIndexes(arg) :
          /\ out.value[1] < i
          /\ i < out.value[2]
          /\ ~SomeCellFinite(arg, i)

----------------------------------------------------------------------------
(* What truncateData leaves alone (SpecTrunc) *)

\* the 0-based index in the field of the time step labelled date, -1 if there is none
IndexOfDate(field, date) ==
    IF \E i \in TimeIndexes(field) : field.time[i + 1] = date
    THEN CHOOSE i \in TimeIndexes(field) : field.time[i + 1] = date
    ELSE -1

\* every step of output is a step of input with the same values on the same cells,
\* and the steps of output follow each other in the order they have in input
Retains(input, output) ==
    /\ \A k \in 1..Len(output.time) :
          LET i == IndexOfDate(input, output.time[k])
          IN  /\ i >= 0
              /\ DOMAIN output.data[k] = DOMAIN input.data[i + 1]
              /\ output.data[k] = input.data[i + 1]
    /\ \A k \in 1..(Len(output.time) - 1) :
          IndexOfDate(input, output.time[k]) < IndexOfDate(input, output.time[k + 1])

\* C13: a field returned by truncateData holds time steps of its input only, in
\* the order they have in the input, each with the values and the (lat, lon) cells
\* it has in the input; this holds for the first call and for a call on its result.
C13_OnlyTimeStepsDropped ==
    /\ (pc # "start" /\ out.ok) => Retains(arg, out.value)
    /\ (pc = "returned twice" /\ out2.ok) => Retains(out.value, out2.value)

\* C13 witness: truncateData dropped steps of its input and returned at least two
\* steps with different values
C13_Witness ==
    /\ pc = "returned"
    /\ out.ok
    /\ Len(out.value.time) >= 2
    /\ Len(out.value.time) < Len(arg.time)
    /\ out.value.data[1] # out.value.data[2]

----------------------------------------------------------------------------
(* plot_stat_maps of a constant field (Spec) *)

\* the field has the finite value v at every cell of every time step
IsConstant(field, v) ==
    /\ Len(field.time) > 0
    /\ \A t \in 1..Len(field.time) : \A c \in DOMAIN field.data[t] : field.data[t][c] = v

\* the panel shows the value q at every cell and annotates Min and Max as q
ShowsOnly(panel, q) ==
    /\ DOMAIN panel.image # {}
    /\ \A c \in DOMAIN panel.image : panel.image[c] = q
    /\ panel.Min = q
    /\ panel.Max = q

----------------------------------------------------------------------------
(* truncateData and the notebook-level name ds (SpecTrunc) *)

\* C15 as stated: the result of truncateData(field, num_years) is the same whatever
\* dataset is bound to the notebook-level name ds when it is called.
C15_IndependentOfDs ==
    pc = "returned" =>
        \A a \in TimeAxes : truncateDataWith(arg, ny, Dataset(a, <<>>, <<>>)) = out

----------------------------------------------------------------------------
(* The order of the steps of plot_stat_maps and plot_timeseries (Spec) *)

\* the steps logged for the member at index, in order, without the drawing steps
\* and the mask of missing steps
PipelineSteps(index) ==
    LET OfMember(e) == e[1] = index /\ e[2] \notin {"plot", "isnan"}
        kept == SelectSeq(figure.log, OfMember)
    IN  [k \in 1..Len(kept) |-> kept[k][2]]

\* the order the claim fixes for one member
PipelineOrder ==
    <<"select">> \o (IF opts.TRUNCATE_DATA THEN <<"truncate">> ELSE <<>>)
        \o <<"persist", "min", "max", "mean", "std">>

\* the number of members whose panels the last plotting call has drawn in full
RowsComplete ==
    IF figure.fn = "plot_stat_maps" THEN StatRows
    ELSE IF figure.fn = "plot_timeseries" THEN Len(figure.panels)
    ELSE SnapshotRows

\* the four reductions drawn for the member at index are those of slice
ReductionsOf(index, slice) ==
    IF figure.fn = "plot_stat_maps"
    THEN /\ figure.panels[4 * index + 1].image = QMap(min_over_time(slice))
         /\ figure.panels[4 * index + 2].image = QMap(max_over_time(slice))
         /\ figure.panels[4 * index + 3].image = mean_over_time(slice)
         /\ figure.panels[4 * index + 4].image = var_over_time(slice)
    ELSE /\ figure.panels[index + 1].min = QMap(min_over_space(slice))
         /\ figure.panels[index + 1].max = QMap(max_over_space(slice))
         /\ figure.panels[index + 1].mean = mean_over_space(slice)
         /\ figure.panels[index + 1].std_squared = var_over_space(slice)

----------------------------------------------------------------------------
(* The order of the members within one plotting call (Spec) *)

\* the panels of the row at index, in the order they were drawn
RowPanels(index) ==
    LET InRow(p) == p.ax[1] = index
    IN  SelectSeq(figure.panels, InRow)

\* the member that the row at index is labelled with
RowLabel(index) ==
    IF figure.fn = "plot_timeseries" THEN RowPanels(index)[1].title
    ELSE RowPanels(index)[1].ylabel

\* the row at index shows the data of field
RowShows(index, field) ==
    IF figure.fn = "plot_first_mid_last"
    THEN /\ RowPanels(index)[1].image = QMap(field.data[FirstValidIndex(field) + 1])
         /\ RowPanels(index)[3].image = QMap(field.data[LastValidIndex(field) + 1])
    ELSE ReductionsOf(index, PlottedSlice(field))

\* C17: in every plotting call the rows are drawn one after another from row 0 on:
\* the panels of a row are drawn, column by column, before any panel of the next
\* row, the logged steps of a member come before any step of the next member, and
\* the row at index i is labelled with, and shows the data of, the member at
\* position i of the dataset's member_id coordinate.
C17_MembersInListedOrder ==
    figure.fn # "none" =>
        /\ \A k \in 1..(Len(figure.panels) - 1) :
              \/ figure.panels[k + 1].ax[1] = figure.panels[k].ax[1]
                    /\ figure.panels[k + 1].ax[2] = figure.panels[k].ax[2] + 1
              \/ figure.panels[k + 1].ax[1] = figure.panels[k].ax[1] + 1
                    /\ figure.panels[k + 1].ax[2] = 0
        /\ Len(figure.panels) > 0 => figure.panels[1].ax = <<0, 0>>
        /\ \A k \in 1..(Len(figure.log) - 1) :
              \/ figure.log[k + 1][1] = figure.log[k][1]
              \/ figure.log[k + 1][1] = figure.log[k][1] + 1
        /\ \A index \in 0..(RowsComplete - 1) :
              /\ RowLabel(index) = <<ds.member_id[index + 1]>>
              /\ RowShows(index, MemberSlice(ds, index + 1))

\* C17 witness: a plotting call returned a figure of 4 rows for a dataset of more
\* than 4 members whose first two members hold different data
C17_Witness ==
    /\ figure.fn = "plot_first_mid_last"
    /\ figure.error = "none"
    /\ RowsComplete = num_members_to_plot
    /\ Len(ds.member_id) > num_members_to_plot
    /\ MemberSlice(ds, 1) # MemberSlice(ds, 2)
    /\ RowPanels(1)[1].image # RowPanels(0)[1].image

----------------------------------------------------------------------------
(* Failures inside a plotting call (Spec) *)

\* the last plotting call scans the member at index for valid dates: always in
\* plot_first_mid_last, through truncateData under the truncate flag in the others
Scans(index) == figure.fn = "plot_first_mid_last" \/ opts.TRUNCATE_DATA

\* processing the member at index fails: there is no such member, or the scan for
\* valid dates finds none
Fails(index) ==
    \/ index >= Len(ds.member_id)
    \/ Scans(index) /\ ~HasValidStep(MemberSlice(ds, index + 1))

\* the steps logged for the member at index, in order
LoggedSteps(index) ==
    LET OfMember(e) == e[1] = index
        kept == SelectSeq(figure.log, OfMember)
    IN  [k \in 1..Len(kept) |-> kept[k][2]]

\* the panels of one row
PanelsPerRow ==
    IF figure.fn = "plot_first_mid_last" THEN 3
    ELSE IF figure.fn = "plot_stat_maps" THEN 4 ELSE 1

\* C18: a plotting call ends with the failure of the first member whose processing
\* fails: the call raises (no figure is returned), the rows of the members before
\* it are the only panels drawn, the failed scan (directly or inside truncateData)
\* was requested once and is the last step of the call, and no step of a later
\* member is carried out; without a failing member the call returns the figure.
C18_FailFast ==
    figure.fn # "none" =>
        IF \E i \in 0..(num_members_to_plot - 1) : Fails(i)
        THEN LET bad == CHOOSE i \in 0..(num_members_to_plot - 1) :
                            Fails(i) /\ \A j \in 0..(i - 1) : ~Fails(j)
             IN  /\ figure.error = "IndexError"
                 /\ Len(figure.panels) = bad * PanelsPerRow
                 /\ \A k \in DOMAIN figure.log : figure.log[k][1] <= bad
                 /\ LoggedSteps(bad) =
                        IF bad >= Len(ds.member_id) THEN <<>>
                        ELSE IF figure.fn = "plot_first_mid_last" THEN <<"select", "scan">>
                        ELSE <<"select", "truncate">>
             ELSE /\ figure.error = "none"
                  /\ Len(figure.panels) = num_members_to_plot * PanelsPerRow

\* C18 witness: under the truncate flag plot_stat_maps drew the first row, failed
\* on the second member, which has no valid data, and left out a later member that
\* has valid data
C18_Witness ==
    /\ figure.fn = "plot_stat_maps"
    /\ opts.TRUNCATE_DATA
    /\ figure.error = "IndexError"
    /\ Len(ds.member_id) >= num_members_to_plot
    /\ StatRows = 1
    /\ ~HasValidStep(MemberSlice(ds, 2))
    /\ HasValidStep(MemberSlice(ds, 3))
    /\ LoggedSteps(1) = <<"select", "truncate">>
    /\ LoggedSteps(2) = <<>>

----------------------------------------------------------------------------
(* The choice of the cluster backend (Spec) *)

\* C19: once the cluster cell has run there is one cluster, and its backend is PBS
\* whenever USE_PBS_SCHEDULER is set (also with USE_DASK_GATEWAY set), the gateway
\* when only USE_DASK_GATEWAY is set, and the local cluster when neither is set;
\* before the cell has run there is no cluster.
C19_OneBackendByFlags ==
    /\ pc = "create_cluster" => cluster = NoCluster
    /\ pc # "create_cluster" =>
          /\ cluster.state \in {"live", "closed"}
          /\ opts.USE_PBS_SCHEDULER => cluster.backend = "pbs"
          /\ (~opts.USE_PBS_SCHEDULER /\ opts.USE_DASK_GATEWAY) => cluster.backend = "gateway"
          /\ (~opts.USE_PBS_SCHEDULER /\ ~opts.USE_DASK_GATEWAY) => cluster.backend = "local"

\* C19 witness: with both switches set the cluster cell has created a PBS cluster
C19_Witness ==
    /\ opts.USE_PBS_SCHEDULER
    /\ opts.USE_DASK_GATEWAY
    /\ cluster = [state |-> "live", backend |-> "pbs"]

----------------------------------------------------------------------------
(* The middle snapshot of plot_first_mid_last (Spec) *)

\* the 0-based index on the dataset's time axis of the date in the panel's title
TitleIndex(panel) == IndexOfDate([time |-> ds.time], panel.title[1])

\* C20: for a dataset with a non-empty time axis the middle index of
\* plot_first_mid_last lies in 0..len(time)-1: no row ends in an IndexError at the
\* middle snapshot, and the middle panel of every row shows the step at index
\* floor(len(time) / 2) of the dataset's time axis, whether or not this index lies
\* inside the member's validity window.
C20_MidIndexWithinAxis ==
    (figure.fn = "plot_first_mid_last" /\ Len(ds.time) > 0) =>
        /\ midDateIndex(ds, 0, 0) \in TimeIndexes(ds)
        /\ Len(figure.panels) = 3 * SnapshotRows
        /\ \A r \in 0..(SnapshotRows - 1) :
              /\ TitleIndex(figure.panels[3 * r + 2]) = Len(ds.time) \div 2
              /\ TitleIndex(figure.panels[3 * r + 2]) \in TimeIndexes(ds)

\* C20 witness: plot_first_mid_last returned a figure in which the middle snapshot
\* of every row lies after the member's validity window and shows no data, while
\* its index is within the time axis
C20_Witness ==
    /\ figure.fn = "plot_first_mid_last"
    /\ figure.error = "none"
    /\ SnapshotRows = num_members_to_plot
    /\ \A r \in 0..(SnapshotRows - 1) :
          /\ LastValidIndex(MemberSlice(ds, r + 1)) < TitleIndex(figure.panels[3 * r + 2])
          /\ TitleIndex(figure.panels[3 * r + 2]) < Len(ds.time)
          /\ figure.panels[3 * r + 2].Min = NaNq

====
